---------------------------- MODULE Spec2Model ----------------------------
(***************************************************************************)
(* smallqueue: a fixed-capacity FIFO queue over an array of               *)
(* MaybeUninit<T> slots with a start index and a length.                  *)
(*                                                                         *)
(* Two copies of the queue exist in the repository: src/src/lib.rs (the   *)
(* crate) and src/stackqueue.rs.  Spec runs the operations of lib.rs,      *)
(* SpecStack those of stackqueue.rs.                                       *)
(*                                                                         *)
(* T is modelled as a type with drop glue (String in examples/leaky.rs):  *)
(* every value is an owned object with its own identity, so values are    *)
(* numbered 1, 2, ... in the order the caller creates them.                *)
(***************************************************************************)
EXTENDS Integers, Sequences, FiniteSets

(* Bounds of the model. *)
MaxCap == 3
MaxValues == 5

(* The width of usize in the word-level model (16, 32 or 64 on real targets). *)
WordBits == 2

(* The bits of a slot no value was ever written to (MaybeUninit::uninit). *)
Uninit == 0

VARIABLES
    cap,        \* the const generic C = self.values.len()
    values,     \* raw contents of the slots: values[i] for i in 0..cap-1
    start,      \* self.start
    len,        \* self.len
    occupied,   \* slots holding a live value: written, not yet moved out or dropped
    minted,     \* number of values the caller has created so far
    accepted,   \* values of the successful inserts, in order
    returned,   \* values returned by extract, in order
    rejected,   \* values whose insert returned Overflow
    released,   \* release (drop) events run by the queue's code, in order
    result,     \* what the last call returned
    called,     \* the operations called so far
    vacantUse,  \* some operation read, moved out of or released a vacant slot
    dropped,    \* the queue was torn down
    crashed,    \* a panic or an abort happened
    overflowChecks  \* the build panics on usize overflow (debug) or wraps (release)

vars == <<cap, values, start, len, occupied, minted, accepted, returned,
          rejected, released, result, called, vacantUse, dropped, crashed,
          overflowChecks>>

queue == <<cap, values, start, len, occupied>>
history == <<accepted, returned, rejected, released>>

Slots == 0 .. (cap - 1)

Range(s) == {s[i] : i \in 1 .. Len(s)}

IsPrefix(s, t) == Len(s) <= Len(t) /\ \A i \in 1 .. Len(s) : s[i] = t[i]

Ret(o, r, v) == [op |-> o, ret |-> r, val |-> v]

Event(v, where) == [val |-> v, at |-> where]

(***************************************************************************)
(* Construction: Queue::default().                                        *)
(***************************************************************************)
Default ==
    /\ values = [i \in Slots |-> Uninit]
    /\ start = 0
    /\ len = 0

Init ==
    /\ cap \in 0 .. MaxCap
    /\ Default
    /\ occupied = {}
    /\ minted = 0
    /\ accepted = <<>>
    /\ returned = <<>>
    /\ rejected = {}
    /\ released = <<>>
    /\ result = Ret("default", "Queue", 0)
    /\ called = {}
    /\ vacantUse = FALSE
    /\ dropped = FALSE
    /\ crashed = FALSE
    /\ overflowChecks \in BOOLEAN

Alive == ~dropped /\ ~crashed

(***************************************************************************)
(* src/src/lib.rs                                                          *)
(***************************************************************************)

(* Mutants of the full check: one that lets a full queue through, one that
   rejects while a slot is still free. *)
IsFullLate == len > cap

IsFullEarly == len + 1 >= cap

(* insert: `self.len + 1 > cap` *)
IsFull == len + 1 > cap

(* Mutant: the write lands one slot too far. *)
BackIndexOffByOne == (start + len + 1) % cap

(* Mutant: the index is clamped to the last slot instead of wrapping. *)
BackIndexClamped == IF start + len >= cap THEN cap - 1 ELSE start + len

(* insert: the index written, `(self.start + self.len) % cap` *)
BackIndex == (start + len) % cap

(* Mutant: the last value is never handed out. *)
NothingToExtractEarly == len <= 1

(* extract: `self.len == 0` *)
NothingToExtract == len = 0

(* Mutant: start is not advanced. *)
NextStartStuck == start % cap

(* Mutants: start advances by two; start advances without wrapping. *)
NextStartSkips == (start + 2) % cap

NextStartNoWrap == start + 1

(* extract: `(self.start + 1) % cap` *)
NextStart == (start + 1) % cap

(* Mutant: the loop forgets where the queue starts. *)
DropIndexFromZero(i) == i % cap

(* drop: `(start + i) % cap` *)
DropIndex(i) == (start + i) % cap

(* Mutant: insert forgets to count the value it stored. *)
LenAfterInsertKept == len

(* insert: `self.len += 1` *)
LenAfterInsert == len + 1

(* Mutant: extract leaves the length alone. *)
LenAfterExtractKept == len

(* extract: `self.len -= 1` *)
LenAfterExtract == len - 1

(* Mutant: Overflow carries the rejected value back to the caller instead of
   dropping it. *)
InsertOverflowHandsBack(value) ==
    /\ rejected' = rejected \cup {value}
    /\ result' = Ret("insert", "Overflow", value)
    /\ UNCHANGED <<released, values, start, len, occupied, accepted, vacantUse, crashed>>

(* Mutant: a full queue evicts its oldest value to make room, and still
   reports Overflow. *)
InsertOverflowEvicts(value) ==
    /\ released' = released \o (IF cap > 0 THEN <<Event(values[start], "insert")>> ELSE <<>>)
    /\ values' = (IF cap > 0 THEN [values EXCEPT ![start] = value] ELSE values)
    /\ rejected' = rejected
    /\ result' = Ret("insert", "Overflow", 0)
    /\ UNCHANGED <<start, len, occupied, accepted, vacantUse, crashed>>

(* insert, the Err path: `value` goes out of scope at the return and is
   dropped there; the queue is not touched. *)
InsertOverflow(value) ==
    /\ released' = Append(released, Event(value, "insert"))
    /\ rejected' = rejected \cup {value}
    /\ result' = Ret("insert", "Overflow", 0)
    /\ UNCHANGED <<values, start, len, occupied, accepted, vacantUse, crashed>>

(* insert, the Ok path: ptr::write moves `value` into the slot without
   reading or dropping what the slot held. *)
InsertWrite(value) ==
    /\ values' = [values EXCEPT ![BackIndex] = value]
    /\ occupied' = occupied \cup {BackIndex}
    /\ len' = LenAfterInsert
    /\ accepted' = Append(accepted, value)
    /\ result' = Ret("insert", "Ok", 0)
    /\ UNCHANGED <<start, rejected, released, vacantUse, crashed>>

(* A panic inside insert (`% cap` with cap = 0): `value` is dropped by the
   unwinding. *)
InsertPanic(value) ==
    /\ crashed' = TRUE
    /\ released' = Append(released, Event(value, "insert"))
    /\ result' = Ret("insert", "panic", 0)
    /\ UNCHANGED <<values, start, len, occupied, accepted, rejected, vacantUse>>

Insert ==
    /\ Alive
    /\ minted < MaxValues
    /\ minted' = minted + 1
    /\ called' = called \cup {"insert"}
    /\ IF IsFull THEN InsertOverflow(minted + 1)
       ELSE IF cap = 0 THEN InsertPanic(minted + 1)
       ELSE InsertWrite(minted + 1)
    /\ UNCHANGED <<overflowChecks, cap, returned, dropped>>

(* extract, the Some path: ptr::read copies the value out of slot start
   (the bits stay in the slot), then start advances. *)
ExtractRead ==
    /\ returned' = Append(returned, values[start])
    /\ result' = Ret("extract", "Some", values[start])
    /\ occupied' = occupied \ {start}
    /\ vacantUse' = (vacantUse \/ start \notin occupied)
    /\ start' = NextStart
    /\ len' = LenAfterExtract
    /\ UNCHANGED <<values, crashed>>

Extract ==
    /\ Alive
    /\ called' = called \cup {"extract"}
    /\ IF NothingToExtract
       THEN /\ result' = Ret("extract", "None", 0)
            /\ UNCHANGED <<values, start, len, occupied, returned, vacantUse, crashed>>
       ELSE IF start \notin Slots
       THEN \* `self.values[self.start]` fails its bounds check
            /\ crashed' = TRUE
            /\ result' = Ret("extract", "panic", 0)
            /\ UNCHANGED <<values, start, len, occupied, returned, vacantUse>>
       ELSE ExtractRead
    /\ UNCHANGED <<overflowChecks, cap, minted, accepted, rejected, released, dropped>>

(* drop: the slots the loop runs drop_in_place on, in order. *)
DropSlots == [i \in 1 .. len |-> DropIndex(i - 1)]

Drop ==
    /\ Alive
    /\ called' = called \cup {"drop"}
    /\ IF len > 0 /\ cap = 0
       THEN /\ crashed' = TRUE
            /\ result' = Ret("drop", "panic", 0)
            /\ UNCHANGED <<released, occupied, vacantUse, dropped>>
       ELSE /\ dropped' = TRUE
            /\ released' = released \o [i \in 1 .. len |-> Event(values[DropSlots[i]], "drop")]
            /\ occupied' = occupied \ Range(DropSlots)
            /\ vacantUse' = (\/ vacantUse
                             \/ \E i \in 1 .. len : DropSlots[i] \notin occupied
                             \/ \E i, j \in 1 .. len : i < j /\ DropSlots[i] = DropSlots[j])
            /\ result' = Ret("drop", "unit", 0)
            /\ UNCHANGED crashed
    /\ UNCHANGED <<overflowChecks, cap, values, start, len, minted, accepted, returned, rejected>>

(* Mutant: capacity() reports the free room instead of the array length. *)
CapacityRemaining ==
    /\ Alive
    /\ called' = called \cup {"capacity"}
    /\ result' = Ret("capacity", "usize", cap - len)
    /\ UNCHANGED <<overflowChecks, queue, minted, history, vacantUse, dropped, crashed>>

Capacity ==
    /\ Alive
    /\ called' = called \cup {"capacity"}
    /\ result' = Ret("capacity", "usize", cap)
    /\ UNCHANGED <<overflowChecks, queue, minted, history, vacantUse, dropped, crashed>>

QueueLen ==
    /\ Alive
    /\ called' = called \cup {"len"}
    /\ result' = Ret("len", "usize", len)
    /\ UNCHANGED <<overflowChecks, queue, minted, history, vacantUse, dropped, crashed>>

(* Mutant: is_empty() tests the start index instead of the length. *)
IsEmptyByStart ==
    /\ Alive
    /\ called' = called \cup {"is_empty"}
    /\ result' = Ret("is_empty", IF start = 0 THEN "true" ELSE "false", 0)
    /\ UNCHANGED <<overflowChecks, queue, minted, history, vacantUse, dropped, crashed>>

IsEmpty ==
    /\ Alive
    /\ called' = called \cup {"is_empty"}
    /\ result' = Ret("is_empty", IF len = 0 THEN "true" ELSE "false", 0)
    /\ UNCHANGED <<overflowChecks, queue, minted, history, vacantUse, dropped, crashed>>

Next ==
    \/ Insert
    \/ Extract
    \/ Drop
    \/ Capacity
    \/ QueueLen
    \/ IsEmpty

Spec == Init /\ [][Next]_vars


(***************************************************************************)
(* src/stackqueue.rs                                                       *)
(***************************************************************************)

(* insert, the Ok path: `*p = val` is an assignment through the pointer, so
   it first drops what the slot holds and then writes val.  The slot is
   vacant: it holds either the stale bits of a value extract moved out, or
   uninitialized memory.  Dropping either is undefined behaviour: stale bits
   release the moved-out value again; uninitialized bits are garbage, which
   may be anything, the bits of a value that exists included; and the
   release may abort the program (the allocator detecting the bad free)
   before val is written. *)
StackAssign(val) ==
    LET idx == (start + len) % cap
        olds == IF values[idx] = Uninit THEN {Uninit} \cup (1 .. minted)
                ELSE {values[idx]}
    IN  \E old \in olds, abort \in BOOLEAN :
            /\ released' = Append(released, Event(old, "assign"))
            /\ vacantUse' = (vacantUse \/ idx \notin occupied)
            /\ crashed' = abort
            /\ IF abort
               THEN /\ result' = Ret("insert", "abort", 0)
                    /\ UNCHANGED <<values, occupied, len, accepted>>
               ELSE /\ values' = [values EXCEPT ![idx] = val]
                    /\ occupied' = occupied \cup {idx}
                    /\ len' = len + 1
                    /\ accepted' = Append(accepted, val)
                    /\ result' = Ret("insert", "Ok", 0)
            /\ UNCHANGED <<start, rejected>>

StackInsert ==
    /\ Alive
    /\ minted < MaxValues
    /\ minted' = minted + 1
    /\ called' = called \cup {"insert"}
    /\ IF len + 1 > cap
       THEN /\ released' = Append(released, Event(minted + 1, "insert"))
            /\ rejected' = rejected \cup {minted + 1}
            /\ result' = Ret("insert", "Overflow", 0)
            /\ UNCHANGED <<values, start, len, occupied, accepted, vacantUse, crashed>>
       ELSE IF cap = 0
       THEN /\ crashed' = TRUE
            /\ released' = Append(released, Event(minted + 1, "insert"))
            /\ result' = Ret("insert", "panic", 0)
            /\ UNCHANGED <<values, start, len, occupied, accepted, rejected, vacantUse>>
       ELSE StackAssign(minted + 1)
    /\ UNCHANGED <<overflowChecks, cap, returned, dropped>>

StackExtract ==
    /\ Alive
    /\ called' = called \cup {"extract"}
    /\ IF len = 0
       THEN /\ result' = Ret("extract", "None", 0)
            /\ UNCHANGED <<values, start, len, occupied, returned, vacantUse, crashed>>
       ELSE IF start \notin Slots
       THEN /\ crashed' = TRUE
            /\ result' = Ret("extract", "panic", 0)
            /\ UNCHANGED <<values, start, len, occupied, returned, vacantUse>>
       ELSE /\ returned' = Append(returned, values[start])
            /\ result' = Ret("extract", "Some", values[start])
            /\ occupied' = occupied \ {start}
            /\ vacantUse' = (vacantUse \/ start \notin occupied)
            /\ start' = (start + 1) % cap
            /\ len' = len - 1
            /\ UNCHANGED <<values, crashed>>
    /\ UNCHANGED <<overflowChecks, cap, minted, accepted, rejected, released, dropped>>

StackDrop ==
    /\ Alive
    /\ called' = called \cup {"drop"}
    /\ IF len > 0 /\ cap = 0
       THEN /\ crashed' = TRUE
            /\ result' = Ret("drop", "panic", 0)
            /\ UNCHANGED <<released, occupied, vacantUse, dropped>>
       ELSE LET slots == [i \in 1 .. len |-> (start + (i - 1)) % cap]
            IN  /\ dropped' = TRUE
                /\ released' = released \o [i \in 1 .. len |-> Event(values[slots[i]], "drop")]
                /\ occupied' = occupied \ Range(slots)
                /\ vacantUse' = (\/ vacantUse
                                 \/ \E i \in 1 .. len : slots[i] \notin occupied
                                 \/ \E i, j \in 1 .. len : i < j /\ slots[i] = slots[j])
                /\ result' = Ret("drop", "unit", 0)
                /\ UNCHANGED crashed
    /\ UNCHANGED <<overflowChecks, cap, values, start, len, minted, accepted, returned, rejected>>

StackCapacity ==
    /\ Alive
    /\ called' = called \cup {"capacity"}
    /\ result' = Ret("capacity", "usize", cap)
    /\ UNCHANGED <<overflowChecks, queue, minted, history, vacantUse, dropped, crashed>>

StackLen ==
    /\ Alive
    /\ called' = called \cup {"len"}
    /\ result' = Ret("len", "usize", len)
    /\ UNCHANGED <<overflowChecks, queue, minted, history, vacantUse, dropped, crashed>>

StackIsEmpty ==
    /\ Alive
    /\ called' = called \cup {"is_empty"}
    /\ result' = Ret("is_empty", IF len = 0 THEN "true" ELSE "false", 0)
    /\ UNCHANGED <<overflowChecks, queue, minted, history, vacantUse, dropped, crashed>>

NextStack ==
    \/ StackInsert
    \/ StackExtract
    \/ StackDrop
    \/ StackCapacity
    \/ StackLen
    \/ StackIsEmpty

SpecStack == Init /\ [][NextStack]_vars

(***************************************************************************)
(* src/src/lib.rs with usize as a word of WordBits bits.  The capacity is   *)
(* any value of the word (an array of a zero-sized T can be that long).     *)
(* An addition that exceeds the word panics in a build with overflow        *)
(* checks and wraps in a build without.  extract, capacity, len and         *)
(* is_empty are the actions above: extract's `self.start + 1` follows the   *)
(* bounds check of `self.values[self.start]`, so it stays within the word.  *)
(***************************************************************************)
UsizeMax == 2 ^ WordBits - 1

Wrapped(x) == x % (UsizeMax + 1)

Overflows(x) == x > UsizeMax

InitWord ==
    /\ cap \in 0 .. UsizeMax
    /\ Default
    /\ occupied = {}
    /\ minted = 0
    /\ accepted = <<>>
    /\ returned = <<>>
    /\ rejected = {}
    /\ released = <<>>
    /\ result = Ret("default", "Queue", 0)
    /\ called = {}
    /\ vacantUse = FALSE
    /\ dropped = FALSE
    /\ crashed = FALSE
    /\ overflowChecks \in BOOLEAN

(* insert, the Ok path: ptr::write at `(self.start + self.len) % cap`, then
   `self.len += 1`, both in the word. *)
WordWrite(value) ==
    LET idx == Wrapped(start + len) % cap
    IN  /\ values' = [values EXCEPT ![idx] = value]
        /\ occupied' = occupied \cup {idx}
        /\ len' = Wrapped(len + 1)
        /\ accepted' = Append(accepted, value)
        /\ result' = Ret("insert", "Ok", 0)
        /\ UNCHANGED <<start, rejected, released, vacantUse, crashed>>

WordInsert ==
    /\ Alive
    /\ minted < MaxValues
    /\ minted' = minted + 1
    /\ called' = called \cup {"insert"}
    /\ IF overflowChecks /\ Overflows(len + 1) THEN InsertPanic(minted + 1)
       ELSE IF Wrapped(len + 1) > cap THEN InsertOverflow(minted + 1)
       ELSE IF overflowChecks /\ Overflows(start + len) THEN InsertPanic(minted + 1)
       ELSE IF cap = 0 THEN InsertPanic(minted + 1)
       ELSE WordWrite(minted + 1)
    /\ UNCHANGED <<overflowChecks, cap, returned, dropped>>

(* drop: the loop stops with a panic at the first `start + i` that exceeds
   the word when overflow is checked, and wraps otherwise. *)
WordDrop ==
    LET over == {i \in 1 .. len : Overflows(start + (i - 1))}
        n == IF overflowChecks /\ over # {}
             THEN (CHOOSE i \in over : \A j \in over : i <= j) - 1
             ELSE len
        slots == [i \in 1 .. n |-> Wrapped(start + (i - 1)) % cap]
    IN  /\ Alive
        /\ called' = called \cup {"drop"}
        /\ IF len > 0 /\ cap = 0
           THEN /\ crashed' = TRUE
                /\ result' = Ret("drop", "panic", 0)
                /\ UNCHANGED <<released, occupied, vacantUse, dropped>>
           ELSE /\ released' = released \o [i \in 1 .. n |-> Event(values[slots[i]], "drop")]
                /\ occupied' = occupied \ Range(slots)
                /\ vacantUse' = (\/ vacantUse
                                 \/ \E i \in 1 .. n : slots[i] \notin occupied
                                 \/ \E i, j \in 1 .. n : i < j /\ slots[i] = slots[j])
                /\ IF n < len
                   THEN /\ crashed' = TRUE
                        /\ result' = Ret("drop", "panic", 0)
                        /\ UNCHANGED dropped
                   ELSE /\ dropped' = TRUE
                        /\ result' = Ret("drop", "unit", 0)
                        /\ UNCHANGED crashed
        /\ UNCHANGED <<overflowChecks, cap, values, start, len, minted, accepted, returned, rejected>>

NextWord ==
    \/ WordInsert
    \/ Extract
    \/ WordDrop
    \/ Capacity
    \/ QueueLen
    \/ IsEmpty

SpecWord == InitWord /\ [][NextWord]_vars

(***************************************************************************)
(* Properties                                                              *)
(***************************************************************************)

SlotValues == {values[i] : i \in Slots}

Vals(events) == [k \in 1 .. Len(events) |-> events[k].val]

AtDrop(e) == e.at = "drop"

(* The release events of the teardown loop. *)
TornDown == Vals(SelectSeq(released, AtDrop))

(* The values accepted and not yet returned, oldest first. *)
Held == SubSeq(accepted, Len(returned) + 1, Len(accepted))

Releases(v) == Cardinality({k \in 1 .. Len(released) : released[k].val = v})

NoRepeat(s) == \A i, j \in 1 .. Len(s) : i < j => s[i] # s[j]

InsertStep == minted' = minted + 1

ExtractStep == result'.op = "extract"

(* C1: FIFO order.  At every point of every interleaving of insert and
   extract, for every capacity, the values extract has returned are a prefix
   of the values insert has accepted. *)
FifoOrder_C1 == IsPrefix(returned, accepted)

FifoOrder_C1_Witness ==
    /\ cap = 2
    /\ Len(returned) >= 3
    /\ Len(accepted) > Len(returned)
    /\ rejected # {}

(* C2: occupancy invariant.  In every state reached from construction by
   insert and extract calls (the queue not yet torn down), the slots holding
   a live value are exactly the len slots (start + i) mod C, 0 <= i < len;
   every other slot is vacant. *)
Occupancy_C2 ==
    (~dropped) => (occupied = {(start + i) % cap : i \in 0 .. (len - 1)})

Occupancy_C2_Witness ==
    /\ len >= 2
    /\ start > 0
    /\ start + len > cap
    /\ len < cap

(* C3: overflow non-mutation.  An insert called with len = C returns
   Overflow, and start, len, the occupied slots and the value in each of
   them are what they were before the call. *)
OverflowNonMutation_C3 ==
    [][(InsertStep /\ len = cap) =>
          /\ result'.ret = "Overflow"
          /\ start' = start
          /\ len' = len
          /\ cap' = cap
          /\ occupied' = occupied
          /\ \A i \in occupied : values'[i] = values[i]]_vars

OverflowNonMutation_C3_Witness ==
    /\ result.op = "insert"
    /\ result.ret = "Overflow"
    /\ cap >= 2
    /\ len = cap
    /\ start > 0

(* C4: insert returns Overflow if and only if len = C, and Ok whenever
   len < C; in particular the insert right after a successful extract
   succeeds. *)
OverflowOnlyWhenFull_C4 ==
    [][InsertStep =>
          /\ (result'.ret = "Overflow") <=> (len = cap)
          /\ (len < cap) => (result'.ret = "Ok")
          /\ (result.op = "extract" /\ result.ret = "Some") => (result'.ret = "Ok")]_vars

OverflowOnlyWhenFull_C4_Witness ==
    /\ result.op = "insert"
    /\ result.ret = "Ok"
    /\ rejected # {}
    /\ returned # <<>>
    /\ len = cap

(* C5: empty extraction.  An extract called with len = 0 returns None and
   leaves start, len and all slots as they were; and extract returns None
   only when len = 0. *)
EmptyExtraction_C5 ==
    [][ExtractStep =>
          /\ (len = 0) => /\ result'.ret = "None"
                          /\ UNCHANGED <<cap, values, start, len, occupied>>
                          /\ UNCHANGED <<accepted, returned, rejected, released>>
          /\ (result'.ret = "None") => (len = 0)
          /\ result'.ret \in {"None", "Some"}]_vars

EmptyExtraction_C5_Witness ==
    /\ result.op = "extract"
    /\ result.ret = "None"
    /\ returned # <<>>
    /\ start > 0

(* C6: length accounting.  len() is the number of successful inserts minus
   the number of successful extracts; a successful insert raises it by 1, a
   successful extract lowers it by 1, a rejected insert or an empty extract
   leaves it unchanged. *)
LengthAccounting_C6 ==
    /\ [](/\ len = Len(accepted) - Len(returned)
          /\ (result.op = "len") => (result.val = Len(accepted) - Len(returned)))
    /\ [][/\ (InsertStep /\ result'.ret = "Ok") => (len' = len + 1)
          /\ (ExtractStep /\ result'.ret = "Some") => (len' = len - 1)
          /\ (InsertStep /\ result'.ret = "Overflow") => (len' = len)
          /\ (ExtractStep /\ result'.ret = "None") => (len' = len)]_vars

LengthAccounting_C6_Witness ==
    /\ result.op = "len"
    /\ result.val = 2
    /\ Len(returned) >= 2
    /\ rejected # {}

(* C7: exhaustive release on teardown.  The drop of the queue releases the
   values of slots (start + i) mod C, i = 0 .. len-1, in that order, each
   once, and touches no vacant slot: what it releases is exactly the values
   accepted and not yet returned, oldest first. *)
TeardownReleasesHeld_C7 ==
    dropped =>
        /\ TornDown = [i \in 1 .. len |-> values[(start + (i - 1)) % cap]]
        /\ TornDown = Held
        /\ NoRepeat(TornDown)
        /\ \A v \in Range(Held) : Releases(v) = 1
        /\ ~vacantUse
        /\ occupied = {}

TeardownReleasesHeld_C7_Witness ==
    /\ dropped
    /\ len >= 2
    /\ start > 0
    /\ start + len > cap

(* C8: ownership transfer on extract.  Once extract has returned a value the
   queue never releases it (not in a later insert, not in teardown), extract
   never returns it again, and the slot it came from stays vacant until an
   insert writes it. *)
OwnershipTransfer_C8 ==
    [][/\ \A k \in (Len(released) + 1) .. Len(released') :
              released'[k].val \notin Range(returned')
       /\ NoRepeat(returned')
       /\ (Len(returned') = Len(returned) + 1) => (start \notin occupied')
       /\ (~InsertStep) => (occupied' \subseteq occupied)]_vars

(* C9: lossy overflow.  A value whose insert failed with Overflow is in no
   slot, is never accepted or returned by extract, is not handed back in the
   result, and is released exactly once, by the failing insert. *)
LossyOverflow_C9 ==
    /\ \A v \in rejected :
          /\ v \notin SlotValues
          /\ v \notin Range(accepted)
          /\ v \notin Range(returned)
          /\ Releases(v) = 1
          /\ \A k \in 1 .. Len(released) : (released[k].val = v) => (released[k].at = "insert")
    /\ (result.ret = "Overflow") => (result.val = 0 /\ rejected # {})

LossyOverflow_C9_Witness ==
    /\ dropped
    /\ Cardinality(rejected) >= 2
    /\ len = cap
    /\ returned # <<>>

(* C10: capacity zero.  With C = 0 every insert returns Overflow, every
   extract returns None, len stays 0, and no operation panics: no modulo by
   zero and no out-of-bounds index is evaluated. *)
CapacityZero_C10 ==
    (cap = 0) =>
        /\ len = 0
        /\ start = 0
        /\ ~crashed
        /\ result.ret # "panic"
        /\ accepted = <<>>
        /\ returned = <<>>
        /\ (result.op = "insert") => (result.ret = "Overflow")
        /\ (result.op = "extract") => (result.ret = "None")
        /\ (result.op = "len") => (result.val = 0)
        /\ (result.op = "is_empty") => (result.ret = "true")
        /\ (result.op = "capacity") => (result.val = 0)

CapacityZero_C10_Witness ==
    /\ cap = 0
    /\ dropped
    /\ called = {"insert", "extract", "len", "is_empty", "capacity", "drop"}
    /\ Cardinality(rejected) >= 2

(* C11: wraparound correctness.  Once start has wrapped past index C-1 (at
   least C values were extracted), also while the occupied run straddles the
   end of the array, start is the number of extracted values mod C, the
   occupied slots are the run of len slots from start, they hold the values
   accepted and not yet returned in insertion order, and what extract has
   returned is a prefix of what was accepted. *)
Wraparound_C11 ==
    (~dropped /\ cap > 0 /\ Len(returned) >= cap) =>
        /\ start = Len(returned) % cap
        /\ IsPrefix(returned, accepted)
        /\ len = Len(Held)
        /\ occupied = {(start + i) % cap : i \in 0 .. (len - 1)}
        /\ \A i \in 1 .. len : values[(start + (i - 1)) % cap] = Held[i]

Wraparound_C11_Witness ==
    /\ ~dropped
    /\ cap >= 2
    /\ Len(returned) > cap
    /\ start + len > cap
    /\ len >= 2

(* C12: capacity invariance.  capacity() returns C, the number of slots of
   the array, in every reachable state; no call, successful or failed,
   changes C or the number of slots, and a capacity() call changes nothing of
   the queue. *)
CapacityInvariance_C12 ==
    /\ [](/\ Cardinality(DOMAIN values) = cap
          /\ (result.op = "capacity") => (result.val = cap))
    /\ [][/\ cap' = cap
          /\ DOMAIN values' = DOMAIN values
          /\ (result'.op = "capacity") =>
                /\ UNCHANGED <<cap, values, start, len, occupied>>
                /\ UNCHANGED <<accepted, returned, rejected, released>>]_vars

CapacityInvariance_C12_Witness ==
    /\ result.op = "capacity"
    /\ result.val = 2
    /\ len = 1
    /\ returned # <<>>
    /\ rejected # {}

(* C13: emptiness consistency.  is_empty() returns true exactly when len()
   is 0, which is exactly when no slot is occupied; a newly constructed
   queue has start = 0, len = 0, every slot vacant, and is_empty() true. *)
EmptinessConsistency_C13 ==
    /\ (result.op = "is_empty") =>
          /\ (result.ret = "true") <=> (len = 0)
          /\ (result.ret = "true") <=> (occupied = {})
          /\ (result.ret = "true") <=> (Len(accepted) = Len(returned))
          /\ (minted = 0) => (result.ret = "true")
    /\ (~dropped) => ((len = 0) <=> (occupied = {}))
    /\ (called \subseteq {"is_empty", "len", "capacity"}) =>
          /\ start = 0
          /\ len = 0
          /\ occupied = {}
          /\ \A i \in Slots : values[i] = Uninit

EmptinessConsistency_C13_Witness ==
    /\ result.op = "is_empty"
    /\ result.ret = "true"
    /\ start > 0
    /\ returned # <<>>

(* C14: no operation treats a vacant slot as holding a value: insert,
   extract and teardown never read, move out of or release the contents of a
   vacant slot, and a successful insert writes its slot without first
   releasing what the vacant slot contained; in both copies of the queue. *)
VacantNeverUsed_C14 ==
    /\ ~vacantUse
    /\ \A k \in 1 .. Len(released) : released[k].at # "assign"

(* C15: effect and frame of a successful insert.  An insert(v) called with
   len < C finds slot (start + len) mod C vacant, makes it hold v and be
   occupied, raises len by exactly 1 and returns Ok; start, and the contents
   and occupancy of every other slot, are unchanged. *)
InsertEffect_C15 ==
    [][(InsertStep /\ len < cap /\ ~crashed') =>
          LET b == (start + len) % cap
          IN  /\ b \notin occupied
              /\ result'.ret = "Ok"
              /\ values'[b] = minted'
              /\ occupied' = occupied \cup {b}
              /\ len' = len + 1
              /\ start' = start
              /\ \A i \in Slots \ {b} : values'[i] = values[i]]_vars

InsertEffect_C15_Witness ==
    /\ result.op = "insert"
    /\ result.ret = "Ok"
    /\ cap >= 2
    /\ start + len > cap
    /\ values[(start + len - 1) % cap] = minted

(* C16: effect and frame of a successful extract.  An extract called with
   len > 0 returns the value held in slot start, the oldest value held; that
   slot becomes vacant, start becomes (start + 1) mod C, len drops by exactly
   1, and the contents and occupancy of every other slot are unchanged. *)
ExtractEffect_C16 ==
    [][(ExtractStep /\ len > 0) =>
          /\ start \in occupied
          /\ result'.ret = "Some"
          /\ result'.val = values[start]
          /\ result'.val = Held[1]
          /\ occupied' = occupied \ {start}
          /\ start' = (start + 1) % cap
          /\ len' = len - 1
          /\ \A i \in Slots \ {start} : values'[i] = values[i]]_vars

ExtractEffect_C16_Witness ==
    /\ result.op = "extract"
    /\ result.ret = "Some"
    /\ cap >= 2
    /\ start = 0
    /\ Len(returned) = cap
    /\ len >= 1

(* C17: length bound.  0 <= len <= C in every reachable state: len is never
   decremented below 0 and never incremented above C. *)
LengthBound_C17 == 0 <= len /\ len <= cap

LengthBound_C17_Witness ==
    /\ cap >= 2
    /\ len = 0
    /\ result.op = "extract"
    /\ result.ret = "None"
    /\ rejected # {}

(* C18 as claimed: for every capacity C, start is an index in [0, C) in
   every reachable state, the states right after construction included. *)
StartIsIndex_C18_Claimed == start \in Slots

(* C18 as amended: for every capacity C >= 1, start is an index in [0, C) in
   every reachable state; for C = 0, where no index exists, start is 0 in
   every reachable state. *)
StartBound_C18 ==
    /\ (cap >= 1) => (start \in Slots)
    /\ (cap = 0) => (start = 0)

StartBound_C18_Witness ==
    /\ cap >= 2
    /\ start = 0
    /\ len = 0
    /\ Len(returned) >= cap

(* C19: the two copies are the same queue.  Run from construction on the
   same calls, stackqueue.rs does at every call exactly what lib.rs does from
   the same state: the same result, the same start, len and slot contents,
   and the same release events.  Checked on the steps of stackqueue.rs: each
   of them must be the step lib.rs takes for that call. *)
SameQueue_C19 ==
    [][/\ InsertStep => Insert
       /\ ExtractStep => Extract
       /\ (result'.op = "drop") => Drop
       /\ (result'.op = "capacity") => Capacity
       /\ (result'.op = "len") => QueueLen
       /\ (result'.op = "is_empty") => IsEmpty]_vars

(* C20: index arithmetic stays in range.  With usize a word of WordBits
   bits, for every capacity the word can hold and every reachable state, the
   sums the code forms - len + 1 in insert's full check, start + len for
   insert's slot, start + 1 in extract, start + i for i < len in teardown -
   never exceed the largest usize, so a successful insert writes slot
   (start + len) mod C and extract moves start to (start + 1) mod C. *)
IndexArithmeticInRange_C20 ==
    [][/\ InsertStep =>
             /\ len + 1 <= UsizeMax
             /\ (len < cap) =>
                   /\ start + len <= UsizeMax
                   /\ (result'.ret = "Ok") => (values'[(start + len) % cap] = minted')
       /\ (ExtractStep /\ len > 0) =>
             /\ start + 1 <= UsizeMax
             /\ (result'.ret = "Some") => (start' = (start + 1) % cap)
       /\ (result'.op = "drop") =>
             \A i \in 0 .. (len - 1) : start + i <= UsizeMax]_vars

=============================================================================
